---- MODULE Spec2Model ----
(***************************************************************************)
(* A state machine of the FAAC editor extension (src/extension.js): the    *)
(* embedded WebSocket server and its connection registry, the debounced    *)
(* context request, the response correlator and the suggestion preview     *)
(* lifecycle.  Every handler of the extension is one action; the editor,   *)
(* the network and the timers are the environment.                         *)
(***************************************************************************)
EXTENDS Integers, Sequences, FiniteSets, TLC

\* ---------------------------------------------------------------- bounds

MaxServers == 2       \* http.Server objects ever created
MaxSockets == 2       \* sockets ever upgraded
MaxLine == 1          \* the document has lines 0..MaxLine
MaxChar == 1          \* cursor columns 0..MaxChar
MaxTimers == 2        \* handles of one kind (timer, watcher) alive at once
MaxShows == 2         \* previews ever shown
MaxMaskKeys == 3      \* mask keys 0..MaxMaskKeys a client may draw
MaxWebSockets == 3    \* WebSocket objects a FAACClient ever creates
MaxSends == 3         \* send() calls ever made on a FAACClient
MaxReconnectAttempts == 2  \* option maxReconnectAttempts
MaxEdits == 1         \* editor.edit calls ever made
MaxAccepts == 2       \* editor.edit calls ever made where accepts repeat
ContextLines == 0     \* configuration value contextLines, scaled to the document
StartTime == 20002    \* Date.now() at activation

\* ------------------------------------------------------- program constants

FreshnessWindow == 10000

\* null, for the module variables that hold a handle, a timestamp, a position
\* or a preview; and the timestamp of a message that carries none.
NoServer == 0
NoHandle == 0
NoSocket == 0
NoTime == -1
ABSENT == -1
NoPosition == [line |-> -1, character |-> -1]
NoText == << >>

Servers == 1..MaxServers
Sockets == 1..MaxSockets
WebSockets == 1..MaxWebSockets
TimerIds == 1..MaxTimers
\* Where the user can put the cursor.
Positions == [line : 0..MaxLine, character : 0..MaxChar]

\* Suggestion objects of a completion message: {text, insertText}; a text is
\* a sequence of characters, insertText may be missing.
SuggA == [text |-> <<"a">>, insertText |-> NoText]
SuggB == [text |-> <<"b">>, insertText |-> <<"b", "c">>]

NoPreview == [suggestion |-> [text |-> NoText, insertText |-> NoText],
              position |-> NoPosition, id |-> 0]

Abs(x) == IF x < 0 THEN -x ELSE x
Min(a, b) == IF a < b THEN a ELSE b
Max(a, b) == IF a < b THEN b ELSE a

\* The smallest handle not in use: setTimeout and event registration return
\* a fresh handle.
NewId(live) == CHOOSE i \in TimerIds \ live : \A j \in TimerIds \ live : i <= j

\* ----------------------------------------------------------------- state

VARIABLES
    server,                 \* module variable: a server, or NoServer
    srvState,               \* per http.Server: "none", "listening", "closed", "failed"
    sockState,              \* per socket: "none", "open", "closed"
    clients,                \* module variable: the set of registered sockets
    typingTimeout,          \* module variable: the last debounce handle, or NoHandle
    liveDebounce,           \* debounce timers pending in the event loop
    lastRequestPosition,    \* module variable
    lastRequestTimestamp,   \* module variable
    reqHist,                \* when the latest request and the one before it were broadcast
    previewDecoration,      \* module variable: the decoration type exists
    activePreview,          \* module variable
    cursorDisposable,       \* module variable: the cursor watcher's handle, or NoHandle
    previewTimeout,         \* module variable: the auto-clear handle, or NoHandle
    previewActive,          \* module variable
    suggestionPreviewVisible, \* the context key set by setContext
    livePreviewTimers,      \* auto-clear timers pending in the event loop
    liveWatchers,           \* registered cursor watchers
    decorated,              \* the ghost text is rendered in the editor
    activeEditor,           \* vscode.window.activeTextEditor is defined
    cursor,                 \* editor.selection.active, as the extension host sees it
    docLong,                \* the document is longer than maxDocumentLength
    fileName,               \* doc.fileName of the active editor's document
    allowedFileExtensions,  \* configuration value allowedFileExtensions
    now,                    \* Date.now()
    edits,                  \* the editor.edit calls under way, in order
    editsMade,              \* editor.edit calls made so far
    selPending,             \* a selection event of the extension's own is under way
    shows,                  \* previews shown so far
    ws,                     \* FAACClient: this.ws, a WebSocket or NoSocket
    wsState,                \* readyState of each WebSocket the client created
    isConnected,            \* FAACClient: this.isConnected
    reconnectAttempts,      \* FAACClient: this.reconnectAttempts
    messageQueue,           \* FAACClient: this.messageQueue
    reconnectTimers,        \* reconnect timers pending in the browser
    wire,                   \* per WebSocket, the messages ws.send accepted
    sendCalls,              \* send() calls made so far; the n-th sends message n
    last                    \* the handler that ran last, and what it did

regVars == <<server, srvState, sockState, clients>>
debVars == <<typingTimeout, liveDebounce>>
reqVars == <<lastRequestPosition, lastRequestTimestamp, reqHist>>
pvVars == <<previewDecoration, activePreview, cursorDisposable, previewTimeout,
            previewActive, suggestionPreviewVisible, livePreviewTimers,
            liveWatchers, decorated, shows>>
docVars == <<docLong, fileName, allowedFileExtensions>>
edVars == <<activeEditor, cursor, docVars, now>>
insVars == <<edits, editsMade, selPending>>
cliVars == <<ws, wsState, isConnected, reconnectAttempts, messageQueue,
             reconnectTimers, wire, sendCalls>>
vars == <<regVars, debVars, reqVars, pvVars, edVars, cliVars, insVars, last>>

NoMsg == [type |-> "none", suggestions |-> << >>, timestamp |-> ABSENT, forReq |-> 0]

\* What a handler leaves in last: its name, the message it handled, whether it
\* did what it is there for, and an identity (of the server, socket or edit
\* it handled; for an accepted completion, of the preview it replaced).
Did(op, msg, hit, n) == [op |-> op, msg |-> msg, hit |-> hit, n |-> n]

\* The message a handler shows the user (showWarningMessage,
\* showInformationMessage, showErrorMessage); NoMsg when it shows none.
Notice(kind) == [NoMsg EXCEPT !.type = kind]

\* The files the editor can show, and `.${fileExt}` of each: the text after
\* the name's last dot, in lower case, behind a dot.
FileNames == {"a.js", "A.JS", "b.py"}
FileExt(name) ==
    CASE name = "a.js" -> ".js"
      [] name = "A.JS" -> ".js"
      [] name = "b.py" -> ".py"

\* The default of allowedFileExtensions, and the lists a user can set.
AllowedFileExtensions == {"*"}
AllowLists == {{"*"}, {".js"}, {".py", "*"}, {}}

\* The configuration's defaults, with the file a.js in the editor.
InitConfig ==
    /\ fileName = "a.js"
    /\ allowedFileExtensions = AllowedFileExtensions

\* The module variables as the module's load leaves them, the editor with
\* the cursor at the start of a document.
InitRegistry ==
    /\ server = NoServer
    /\ srvState = [s \in Servers |-> "none"]
    /\ sockState = [k \in Sockets |-> "none"]
    /\ clients = {}

\* new FAACClient(port, options), before connect() is called.
InitClient ==
    /\ ws = NoSocket
    /\ wsState = [c \in WebSockets |-> "none"]
    /\ isConnected = FALSE
    /\ reconnectAttempts = 0
    /\ messageQueue = << >>
    /\ reconnectTimers = 0
    /\ wire = [c \in WebSockets |-> << >>]
    /\ sendCalls = 0

InitSessionState ==
    /\ InitClient
    /\ typingTimeout = NoHandle
    /\ liveDebounce = {}
    /\ lastRequestPosition = NoPosition
    /\ lastRequestTimestamp = NoTime
    /\ reqHist = << >>
    /\ previewDecoration = FALSE
    /\ activePreview = NoPreview
    /\ cursorDisposable = NoHandle
    /\ previewTimeout = NoHandle
    /\ previewActive = FALSE
    /\ suggestionPreviewVisible = FALSE
    /\ livePreviewTimers = {}
    /\ liveWatchers = {}
    /\ decorated = FALSE
    /\ activeEditor = TRUE
    /\ cursor = [line |-> 0, character |-> 0]
    /\ now = StartTime
    /\ edits = << >>
    /\ editsMade = 0
    /\ selPending = FALSE
    /\ shows = 0

InitSession ==
    /\ InitSessionState
    /\ last = Did("init", NoMsg, FALSE, 0)

Init ==
    /\ InitRegistry
    /\ InitSession
    /\ InitConfig
    /\ docLong \in BOOLEAN

\* The state after the server was started and one client shook hands:
\* Start, then Upgrade(1), from Init.
ConnectedRegistry ==
    /\ server = 1
    /\ srvState = [s \in Servers |-> IF s = 1 THEN "listening" ELSE "none"]
    /\ sockState = [k \in Sockets |-> IF k = 1 THEN "open" ELSE "none"]
    /\ clients = {1}

\* The same with a document that fits maxDocumentLength, or with either.
InitConnected ==
    /\ ConnectedRegistry
    /\ InitSession
    /\ InitConfig
    /\ docLong = FALSE

InitConnectedAnyDoc ==
    /\ ConnectedRegistry
    /\ InitSession
    /\ InitConfig
    /\ docLong \in BOOLEAN

\* The module's load, with a document that fits maxDocumentLength.
InitShutdown ==
    /\ InitRegistry
    /\ InitSession
    /\ InitConfig
    /\ docLong = FALSE

\* One client connected, any file in the editor and any allow-list set.
InitAllowList ==
    /\ ConnectedRegistry
    /\ InitSession
    /\ docLong = FALSE
    /\ fileName \in FileNames
    /\ allowedFileExtensions \in AllowLists

\* -------------------------------------------------- the server lifecycle

\* The port is free when no server of this process listens on it.
PortFree == \A s \in Servers : srvState[s] # "listening"

\* startWebSocketServer: a no-op while server is set; otherwise a new server
\* is created and told to listen.  The outcome of listen is delivered before
\* any other event: the server listens, or its 'error' handler runs
\* (EADDRINUSE) and resets the handle.
startWebSocketServer ==
    IF server # NoServer
    THEN /\ last' = Did("start", Notice("warning"), FALSE, 0)
         /\ UNCHANGED regVars
    ELSE /\ \E s \in Servers :
            /\ srvState[s] = "none"
            /\ \A r \in Servers : r < s => srvState[r] # "none"
            /\ \E ok \in {b \in BOOLEAN : b => PortFree} :
                IF ok
                THEN /\ server' = s
                     /\ srvState' = [srvState EXCEPT ![s] = "listening"]
                     /\ last' = Did("start", Notice("information"), TRUE, s)
                ELSE /\ server' = NoServer
                     /\ srvState' = [srvState EXCEPT ![s] = "failed"]
                     /\ last' = Did("startFailed", Notice("error"), FALSE, s)
         /\ UNCHANGED <<sockState, clients>>

Start ==
    /\ startWebSocketServer
    /\ UNCHANGED <<debVars, reqVars, pvVars, edVars, cliVars, insVars>>

\* server.on('error') of a listening server (an accept failure): the handle
\* is reset, the listener and the sockets are left as they are.
ServerError(s) ==
    /\ srvState[s] = "listening"
    /\ server' = NoServer
    /\ last' = Did("serverError", Notice("error"), FALSE, s)
    /\ UNCHANGED <<srvState, sockState, clients>>
    /\ UNCHANGED <<debVars, reqVars, pvVars, edVars, cliVars, insVars>>

\* stopWebSocketServer, entered from the handler op: returns at once when
\* server is null; otherwise destroys every registered socket, clears the
\* registry, resets the handle and closes the listener.  (The timer it arms
\* finds the server closed and does nothing.)
stopWebSocketServerFrom(op) ==
    IF server = NoServer
    THEN /\ last' = Did(op, NoMsg, FALSE, 0)
         /\ UNCHANGED regVars
    ELSE /\ sockState' = [k \in Sockets |->
                            IF k \in clients THEN "closed" ELSE sockState[k]]
         /\ clients' = {}
         /\ server' = NoServer
         /\ srvState' = [srvState EXCEPT ![server] = "closed"]
         /\ last' = Did(op, Notice("information"), TRUE, server)

stopWebSocketServer == stopWebSocketServerFrom("stop")

Stop ==
    /\ stopWebSocketServer
    /\ UNCHANGED <<debVars, reqVars, pvVars, edVars, cliVars, insVars>>

\* server.on('upgrade'): the handshake is answered and the socket is
\* registered; its data, close and error handlers are attached.
Upgrade(k) ==
    /\ \E s \in Servers : srvState[s] = "listening"
    /\ sockState[k] = "none"
    /\ \A j \in Sockets : j < k => sockState[j] # "none"
    /\ sockState' = [sockState EXCEPT ![k] = "open"]
    /\ clients' = clients \cup {k}
    /\ last' = Did("upgrade", NoMsg, TRUE, k)
    /\ UNCHANGED <<server, srvState>>
    /\ UNCHANGED <<debVars, reqVars, pvVars, edVars, cliVars, insVars>>

\* socket.on('close'): the peer closed the connection.
SocketClose(k) ==
    /\ sockState[k] = "open"
    /\ sockState' = [sockState EXCEPT ![k] = "closed"]
    /\ clients' = clients \ {k}
    /\ last' = Did("socketClose", NoMsg, TRUE, k)
    /\ UNCHANGED <<server, srvState>>
    /\ UNCHANGED <<debVars, reqVars, pvVars, edVars, cliVars, insVars>>

\* socket.on('error'): a transport error; the socket is destroyed with it.
SocketError(k) ==
    /\ sockState[k] = "open"
    /\ sockState' = [sockState EXCEPT ![k] = "closed"]
    /\ clients' = clients \ {k}
    /\ last' = Did("socketError", NoMsg, TRUE, k)
    /\ UNCHANGED <<server, srvState>>
    /\ UNCHANGED <<debVars, reqVars, pvVars, edVars, cliVars, insVars>>

\* ----------------------------------------------- the userscript's client

\* connect(): returns when this.ws is set; otherwise creates a WebSocket,
\* which starts connecting, and keeps it in this.ws.
connect ==
    IF ws # NoSocket
    THEN UNCHANGED <<ws, wsState>>
    ELSE \E c \in WebSockets :
            /\ wsState[c] = "none"
            /\ \A d \in WebSockets : d < c => wsState[d] # "none"
            /\ ws' = c
            /\ wsState' = [wsState EXCEPT ![c] = "connecting"]

Connect ==
    /\ connect
    /\ last' = Did("connect", NoMsg, ws' # ws, ws')
    /\ UNCHANGED <<isConnected, reconnectAttempts, messageQueue,
                   reconnectTimers, wire, sendCalls>>
    /\ UNCHANGED <<regVars, debVars, reqVars, pvVars, edVars, insVars>>

\* this.ws.send(message) for each message of ms in turn, inside send()'s
\* try: an open socket takes it, a closing or closed one discards it, a
\* connecting one and a null this.ws throw, and the catch logs.
Sent(readyState, ms) ==
    IF ws # NoSocket /\ readyState[ws] = "open"
    THEN [wire EXCEPT ![ws] = @ \o ms]
    ELSE wire

\* _processQueue taking the messages from the end of the queue.
ProcessQueueReversed ==
    [i \in 1..Len(messageQueue) |-> messageQueue[Len(messageQueue) + 1 - i]]

\* _processQueue with isConnected true: the messages in the order send()
\* will see them, the queue emptied.
ProcessQueue == messageQueue

\* ws.onopen of socket c.
WsOpen(c) ==
    /\ wsState[c] = "connecting"
    /\ wsState' = [wsState EXCEPT ![c] = "open"]
    /\ isConnected' = TRUE
    /\ reconnectAttempts' = 0
    /\ wire' = Sent(wsState', ProcessQueue)
    /\ messageQueue' = << >>
    /\ last' = Did("wsOpen", NoMsg, TRUE, c)
    /\ UNCHANGED <<ws, reconnectTimers, sendCalls>>
    /\ UNCHANGED <<regVars, debVars, reqVars, pvVars, edVars, insVars>>

\* _attemptReconnect(): gives up at maxReconnectAttempts, otherwise counts
\* the attempt and arms a timer that calls connect().
AttemptReconnect ==
    IF reconnectAttempts >= MaxReconnectAttempts
    THEN UNCHANGED <<reconnectAttempts, reconnectTimers>>
    ELSE /\ reconnectAttempts' = reconnectAttempts + 1
         /\ reconnectTimers' = reconnectTimers + 1

\* ws.onclose of socket c: the connection was lost, could not be made, or
\* was closed by disconnect().
WsClose(c) ==
    /\ wsState[c] \in {"connecting", "open", "closing"}
    /\ wsState' = [wsState EXCEPT ![c] = "closed"]
    /\ isConnected' = FALSE
    /\ AttemptReconnect
    /\ last' = Did("wsClose", NoMsg, reconnectAttempts' # reconnectAttempts, c)
    /\ UNCHANGED <<ws, messageQueue, wire, sendCalls>>
    /\ UNCHANGED <<regVars, debVars, reqVars, pvVars, edVars, insVars>>

\* The timer armed by _attemptReconnect elapses.
ReconnectTimerFire ==
    /\ reconnectTimers > 0
    /\ reconnectTimers' = reconnectTimers - 1
    /\ connect
    /\ last' = Did("reconnect", NoMsg, ws' # ws, ws')
    /\ UNCHANGED <<isConnected, reconnectAttempts, messageQueue, wire, sendCalls>>
    /\ UNCHANGED <<regVars, debVars, reqVars, pvVars, edVars, insVars>>

\* send(data), the caller's next message.
Send ==
    /\ sendCalls < MaxSends
    /\ sendCalls' = sendCalls + 1
    /\ IF ~isConnected
       THEN /\ messageQueue' = Append(messageQueue, sendCalls + 1)
            /\ UNCHANGED wire
       ELSE /\ wire' = Sent(wsState, <<sendCalls + 1>>)
            /\ UNCHANGED messageQueue
    /\ last' = Did("send", NoMsg, isConnected, sendCalls + 1)
    /\ UNCHANGED <<ws, wsState, isConnected, reconnectAttempts, reconnectTimers>>
    /\ UNCHANGED <<regVars, debVars, reqVars, pvVars, edVars, insVars>>

\* disconnect().
Disconnect ==
    /\ IF ws # NoSocket
       THEN /\ wsState' = [wsState EXCEPT ![ws] =
                             IF @ \in {"connecting", "open"} THEN "closing" ELSE @]
            /\ ws' = NoSocket
            /\ isConnected' = FALSE
       ELSE UNCHANGED <<ws, wsState, isConnected>>
    /\ last' = Did("disconnect", NoMsg, ws # NoSocket, ws)
    /\ UNCHANGED <<reconnectAttempts, messageQueue, reconnectTimers, wire, sendCalls>>
    /\ UNCHANGED <<regVars, debVars, reqVars, pvVars, edVars, insVars>>

\* -------------------------------------------------------- the frame codec

\* A buffer is a sequence of bytes, a string a sequence of code points.
\* a ^ b on bytes.
RECURSIVE BitXor(_, _)
BitXor(a, b) ==
    IF a = 0 THEN b
    ELSE IF b = 0 THEN a
    ELSE (((a % 2) + (b % 2)) % 2) + 2 * BitXor(a \div 2, b \div 2)

\* Buffer.from(s, 'utf8') for code points below 0x800: one byte below 0x80,
\* two bytes otherwise.
Utf8Bytes(c) ==
    IF c < 128 THEN <<c>> ELSE <<192 + (c \div 64), 128 + (c % 64)>>
RECURSIVE Utf8Range(_, _, _)
Utf8Range(s, lo, hi) ==
    IF lo > hi THEN << >>
    ELSE IF lo = hi THEN Utf8Bytes(s[lo])
    ELSE LET mid == (lo + hi) \div 2
         IN Utf8Range(s, lo, mid) \o Utf8Range(s, mid + 1, hi)
Utf8Encode(s) == Utf8Range(s, 1, Len(s))

\* buffer.toString('utf8') for the same range: a byte below 0x80 is its code
\* point, a lead byte 0xC2-0xDF followed by a continuation byte is a
\* two-byte code point, and every other byte becomes U+FFFD.
Replacement == 65533
IsContinuation(b) == b >= 128 /\ b < 192
IsLead2(b) == b >= 194 /\ b < 224
Utf8Decode(buf) ==
    LET n == Len(buf)
        paired(i) == /\ IsLead2(buf[i])
                     /\ i < n
                     /\ IsContinuation(buf[i + 1])
        starts == SelectSeq([i \in 1..n |-> i],
                            LAMBDA i : ~(i > 1 /\ IsContinuation(buf[i]) /\ paired(i - 1)))
        point(i) == IF buf[i] < 128 THEN buf[i]
                    ELSE IF paired(i)
                         THEN (buf[i] - 192) * 64 + (buf[i + 1] - 128)
                         ELSE Replacement
    IN << >> \o [k \in 1..Len(starts) |-> point(starts[k])]

\* The bytes of f as a buffer (a tuple, indexed in constant time).
Buffer(f) == SubSeq(f, 1, Len(f))

\* buffer.slice(from, to) with 0-based offsets, clamped to the buffer.
Slice(buf, from, to) ==
    SubSeq(buf, Min(from, Len(buf)) + 1, Min(to, Len(buf)))

\* writeUInt16BE and writeBigUInt64BE; readUInt16BE and readBigUInt64BE at a
\* 0-based offset of a buffer that holds the bytes.
RECURSIVE BigEndian(_, _)
BigEndian(n, width) ==
    IF width = 0 THEN << >>
    ELSE BigEndian(n \div 256, width - 1) \o <<n % 256>>
RECURSIVE ReadBE(_, _, _)
ReadBE(buf, offset, width) ==
    IF width = 0 THEN 0
    ELSE ReadBE(buf, offset, width - 1) * 256 + buf[offset + width]

\* What parseWebSocketFrame does with a buffer: returns null, returns a
\* string, or throws (a read beyond the buffer's end).
ParsedNull == [kind |-> "null", text |-> << >>]
ParsedThrow == [kind |-> "throws", text |-> << >>]
ParsedText(t) == [kind |-> "text", text |-> t]

\* createWebSocketFrame with the first test as len <= 126.
createWebSocketFrameOffByOne(data) ==
    LET payload == Utf8Encode(data)
        len == Len(payload)
    IN IF len <= 126 THEN <<129, len>> \o payload
       ELSE IF len < 65536 THEN <<129, 126>> \o BigEndian(len, 2) \o payload
       ELSE <<129, 127>> \o BigEndian(len, 8) \o payload

createWebSocketFrame(data) ==
    LET payload == Utf8Encode(data)
        len == Len(payload)
    IN IF len < 126 THEN <<129, len>> \o payload
       ELSE IF len < 65536 THEN <<129, 126>> \o BigEndian(len, 2) \o payload
       ELSE <<129, 127>> \o BigEndian(len, 8) \o payload

\* parseWebSocketFrame without its tests of the opcode.
parseWebSocketFrameAnyOpcode(buffer) ==
    IF Len(buffer) < 2 THEN ParsedNull
    ELSE
    LET len7 == buffer[2] % 128
        short == \/ len7 = 126 /\ Len(buffer) < 4
                 \/ len7 = 127 /\ Len(buffer) < 10
        len == IF len7 = 126 THEN ReadBE(buffer, 2, 2)
               ELSE IF len7 = 127 THEN ReadBE(buffer, 2, 8)
               ELSE len7
        lenEnd == IF len7 = 126 THEN 4 ELSE IF len7 = 127 THEN 10 ELSE 2
        masked == buffer[2] >= 128
        mask == IF masked THEN Slice(buffer, lenEnd, lenEnd + 4) ELSE << >>
        offset == IF masked THEN lenEnd + 4 ELSE lenEnd
        payload == Slice(buffer, offset, offset + len)
        key(i) == IF ((i - 1) % 4) + 1 <= Len(mask)
                  THEN mask[((i - 1) % 4) + 1] ELSE 0
        clear == IF masked
                 THEN Buffer([i \in 1..Len(payload) |-> BitXor(payload[i], key(i))])
                 ELSE payload
    IN IF short THEN ParsedThrow ELSE ParsedText(Utf8Decode(clear))

parseWebSocketFrame(buffer) ==
    IF Len(buffer) < 2 THEN ParsedNull
    ELSE IF buffer[1] % 16 = 8 THEN ParsedNull
    ELSE IF buffer[1] % 16 # 1 THEN ParsedNull
    ELSE
    LET len7 == buffer[2] % 128
        short == \/ len7 = 126 /\ Len(buffer) < 4
                 \/ len7 = 127 /\ Len(buffer) < 10
        len == IF len7 = 126 THEN ReadBE(buffer, 2, 2)
               ELSE IF len7 = 127 THEN ReadBE(buffer, 2, 8)
               ELSE len7
        lenEnd == IF len7 = 126 THEN 4 ELSE IF len7 = 127 THEN 10 ELSE 2
        masked == buffer[2] >= 128
        mask == IF masked THEN Slice(buffer, lenEnd, lenEnd + 4) ELSE << >>
        offset == IF masked THEN lenEnd + 4 ELSE lenEnd
        payload == Slice(buffer, offset, offset + len)
        key(i) == IF ((i - 1) % 4) + 1 <= Len(mask)
                  THEN mask[((i - 1) % 4) + 1] ELSE 0
        clear == IF masked
                 THEN Buffer([i \in 1..Len(payload) |-> BitXor(payload[i], key(i))])
                 ELSE payload
    IN IF short THEN ParsedThrow ELSE ParsedText(Utf8Decode(clear))

\* The frame a browser's WebSocket sends for the string data with the mask
\* key mask: a text frame with the mask bit set, the key after the length.
ClientFrame(data, mask) ==
    LET payload == Utf8Encode(data)
        len == Len(payload)
        head == IF len < 126 THEN <<129, 128 + len>>
                ELSE IF len < 65536 THEN <<129, 128 + 126>> \o BigEndian(len, 2)
                ELSE <<129, 128 + 127>> \o BigEndian(len, 8)
    IN head \o mask
       \o [i \in 1..len |-> BitXor(payload[i], mask[((i - 1) % 4) + 1])]

\* The payload byte lengths around the three length tiers of a frame.
PayloadSizes == {0, 10, 125, 126, 65535, 65536}

\* A string whose UTF-8 encoding has size bytes: letters only, or (accent)
\* an e-acute of two bytes followed by letters.
TextOf(size, accent) ==
    IF accent
    THEN Buffer([i \in 1..(size - 1) |-> IF i = 1 THEN 233 ELSE 97 + (i % 26)])
    ELSE Buffer([i \in 1..size |-> 97 + (i % 26)])

Payloads == {p \in PayloadSizes \X BOOLEAN : p[2] => p[1] >= 2}

\* The i-th mask key a client may draw; key 0 is all zeroes.
MaskKey(i) ==
    <<(37 * i) % 256, (101 * i + 6 * i * i) % 256,
      (256 - i) % 256, (19 * i * i) % 256>>

\* The codec applied to a payload: the server's framing, a client's masked
\* framing, and the parse of either frame.
InitCodec ==
    /\ InitRegistry
    /\ InitSessionState
    /\ InitConfig
    /\ docLong = FALSE
    /\ last \in {Did("payload",
                     [type |-> "payload", size |-> p[1],
                      text |-> TextOf(p[1], p[2])], FALSE, 0) : p \in Payloads}

FrameForClient ==
    /\ last.op = "payload"
    /\ last' = Did("createFrame",
                   [type |-> "frame", size |-> last.msg.size,
                    text |-> last.msg.text,
                    frame |-> createWebSocketFrame(last.msg.text)], TRUE, 0)
    /\ UNCHANGED <<regVars, debVars, reqVars, pvVars, edVars, cliVars, insVars>>

FrameFromClient(i) ==
    /\ last.op = "payload"
    /\ last' = Did("clientFrame",
                   [type |-> "frame", size |-> last.msg.size,
                    text |-> last.msg.text,
                    frame |-> ClientFrame(last.msg.text, MaskKey(i))], TRUE, i)
    /\ UNCHANGED <<regVars, debVars, reqVars, pvVars, edVars, cliVars, insVars>>

ParseFrame ==
    /\ last.op \in {"createFrame", "clientFrame"}
    /\ last' = Did("parse",
                   [type |-> "parsed", size |-> last.msg.size,
                    text |-> last.msg.text, from |-> last.op,
                    result |-> parseWebSocketFrame(last.msg.frame)],
                   TRUE, last.n)
    /\ UNCHANGED <<regVars, debVars, reqVars, pvVars, edVars, cliVars, insVars>>

\* ------------------------------------------------- the debounced trigger

\* Configuration (the defaults of config.get).
EnableAutoTrigger == TRUE
SendFullDocument == FALSE
EnableCursorMarker == TRUE

\* clearTimeout(typingTimeout), when typingTimeout is set.
DebounceCleared ==
    IF typingTimeout # NoHandle THEN liveDebounce \ {typingTimeout} ELSE liveDebounce

\* handleTextChange: with auto-trigger on, the pending debounce timer is
\* cleared and a new one armed.
handleTextChange ==
    IF ~EnableAutoTrigger
    THEN UNCHANGED debVars
    ELSE /\ DebounceCleared # TimerIds
         /\ typingTimeout' = NewId(DebounceCleared)
         /\ liveDebounce' = DebounceCleared \cup {NewId(DebounceCleared)}

\* The list holds '*', or the file's extension with its dot.
\* (ExtensionAlwaysAllowed: the check of lines 280-285 left out.)
ExtensionAlwaysAllowed == TRUE
ExtensionAllowed ==
    \/ "*" \in allowedFileExtensions
    \/ FileExt(fileName) \in allowedFileExtensions

\* The lines of the text sendCurrentContext marks: the whole document, or,
\* for a long document, the window of ContextLines lines around line l that
\* doc.getText(new Range(start, 0, end, 0)) returns, split at '\n'.
LineCount == MaxLine + 1
WindowStart(l) == Max(0, l - ContextLines)
WindowEnd(l) == Min(LineCount, l + ContextLines)
MarkedLines(l) ==
    IF SendFullDocument \/ ~docLong
    THEN LineCount
    ELSE IF WindowEnd(l) < LineCount
         THEN WindowEnd(l) - WindowStart(l) + 1
         ELSE LineCount - WindowStart(l)

\* lines[pos.line] is undefined, and cursorLine.slice throws.
MarkerThrows(l) == EnableCursorMarker /\ l >= MarkedLines(l)

\* The sockets of reg in the order the loop of line 329 visits them.
RECURSIVE InOrder(_)
InOrder(reg) ==
    IF reg = {} THEN << >>
    ELSE LET c == CHOOSE x \in reg : \A y \in reg : x <= y
         IN <<c>> \o InOrder(reg \ {c})

\* The loop without the try and catch of lines 330-331: the first write that
\* throws ends it, and nothing is deleted.
BroadcastAborting(reg, failing) ==
    LET order == InOrder(reg)
        stop == IF reg \cap failing = {} THEN Len(order)
                ELSE CHOOSE i \in 1..Len(order) :
                        /\ order[i] \in failing
                        /\ \A j \in 1..(i - 1) : order[j] \notin failing
    IN [attempts |-> SubSeq(order, 1, stop),
        sent |-> {order[i] : i \in 1..stop} \ failing,
        failed |-> {},
        registry |-> reg]

\* The broadcast of lines 328-333 to the registry reg, when the writes to
\* the sockets in failing throw: every socket is written to once, the ones
\* whose write threw are collected and then deleted from the registry.
Broadcast(reg, failing) ==
    LET order == InOrder(reg)
        dead == SelectSeq(order, LAMBDA c : c \in failing)
    IN [attempts |-> order,
        sent |-> {order[i] : i \in 1..Len(order)} \ failing,
        failed |-> {dead[i] : i \in 1..Len(dead)},
        registry |-> reg \ {dead[i] : i \in 1..Len(dead)}]

\* The context message as last keeps it: when it was sent, and what the
\* broadcast did with it.
ContextMsg(b) ==
    [type |-> "context", suggestions |-> << >>, timestamp |-> now, forReq |-> 0,
     attempts |-> b.attempts, sent |-> b.sent, failed |-> b.failed]

\* sendCurrentContext, the debounce timer's callback: nothing without a
\* client or an editor, or for a file that is not allowed; otherwise the
\* outstanding request is recorded, the text is built and the frame is
\* written to every client; the clients whose write throws are removed.
sendCurrentContext ==
    IF clients = {} \/ ~activeEditor \/ ~ExtensionAllowed
    THEN /\ last' = Did("fire", NoMsg, FALSE, 0)
         /\ UNCHANGED <<clients, reqVars>>
    ELSE /\ lastRequestPosition' = [line |-> cursor.line, character |-> cursor.character]
         /\ lastRequestTimestamp' = now
         /\ IF MarkerThrows(cursor.line)
            THEN /\ last' = Did("fireThrew", NoMsg, FALSE, 0)
                 /\ UNCHANGED <<clients, reqHist>>
            ELSE /\ reqHist' = IF reqHist = << >>
                               THEN <<now>>
                               ELSE <<reqHist[Len(reqHist)], now>>
                 /\ \E failing \in SUBSET clients :
                        LET b == Broadcast(clients, failing)
                        IN /\ clients' = b.registry
                           /\ last' = Did("fire", ContextMsg(b), TRUE, 0)

DebounceFire(t) ==
    /\ t \in liveDebounce
    /\ liveDebounce' = liveDebounce \ {t}
    /\ sendCurrentContext
    /\ UNCHANGED <<typingTimeout, server, srvState, sockState>>
    /\ UNCHANGED <<pvVars, edVars, cliVars, insVars>>

\* vscode.workspace.onDidChangeTextDocument
TextChange ==
    /\ handleTextChange
    /\ last' = Did("textChange", NoMsg, TRUE, 0)
    /\ UNCHANGED <<regVars, reqVars, pvVars, edVars, cliVars, insVars>>

\* The clock moves on, by the freshness window or just beyond it, until
\* the window has passed once.
ClockSteps == {FreshnessWindow, FreshnessWindow + 1}
Tick(d) ==
    /\ now + d <= StartTime + FreshnessWindow + 1
    /\ now' = now + d
    /\ last' = Did("tick", NoMsg, TRUE, 0)
    /\ UNCHANGED <<regVars, debVars, reqVars, pvVars, insVars>>
    /\ UNCHANGED <<activeEditor, cursor, docVars, cliVars>>

\* The focus leaves the text editor, or returns to it.
FocusChange ==
    /\ activeEditor' = ~activeEditor
    /\ last' = Did("focus", NoMsg, TRUE, 0)
    /\ UNCHANGED <<regVars, debVars, reqVars, pvVars, insVars>>
    /\ UNCHANGED <<cursor, docVars, cliVars, now>>

\* The user brings another file's editor to the front.
SwitchFile(f) ==
    /\ activeEditor
    /\ f # fileName
    /\ fileName' = f
    /\ last' = Did("switch", NoMsg, TRUE, 0)
    /\ UNCHANGED <<regVars, debVars, reqVars, pvVars, insVars>>
    /\ UNCHANGED <<activeEditor, cursor, docLong, allowedFileExtensions, now, cliVars>>

\* ------------------------------------------------ the suggestion preview

\* clearTimeout(previewTimeout) and cursorDisposable.dispose(), each when
\* the variable is set; setDecorations(previewDecoration, []) when the
\* decoration type exists and an editor is active.  (PreviewTimersKept: the
\* same without the clearTimeout.)
PreviewTimersKept(live) == live
PreviewTimersCleared(live) ==
    IF previewTimeout # NoHandle THEN live \ {previewTimeout} ELSE live
WatchersDisposed ==
    IF cursorDisposable # NoHandle
    THEN liveWatchers \ {cursorDisposable} ELSE liveWatchers
DecorationCleared ==
    IF previewDecoration /\ activeEditor THEN FALSE ELSE decorated

\* clearSuggestionPreview, run while the timers in live are pending.
clearSuggestionPreview(live) ==
    /\ decorated' = DecorationCleared
    /\ activePreview' = NoPreview
    /\ previewActive' = FALSE
    /\ suggestionPreviewVisible' = FALSE
    /\ liveWatchers' = WatchersDisposed
    /\ cursorDisposable' = NoHandle
    /\ livePreviewTimers' = PreviewTimersCleared(live)
    /\ previewTimeout' = NoHandle
    /\ UNCHANGED <<previewDecoration, shows>>

\* showSuggestionPreview(suggestion), called with an active editor: the old
\* preview is cleared, then the new one is recorded and rendered at the
\* cursor, and a cursor watcher and an auto-clear timer are armed.  (The
\* clean-up of lines 423-424 finds both variables null after the clear.)
\* setTimeout that returns a handle and schedules nothing.
AutoClearNotArmed(live) == live

\* The timers pending once setTimeout has armed the auto-clear timer.
AutoClearArmed(live) == live \cup {NewId(live)}

showSuggestionPreview(suggestion) ==
    /\ PreviewTimersCleared(livePreviewTimers) # TimerIds
    /\ WatchersDisposed # TimerIds
    /\ previewDecoration' = TRUE
    /\ activePreview' = [suggestion |-> suggestion,
                         position |-> cursor,
                         id |-> shows + 1]
    /\ shows' = shows + 1
    /\ previewActive' = TRUE
    /\ suggestionPreviewVisible' = TRUE
    /\ decorated' = TRUE
    /\ cursorDisposable' = NewId(WatchersDisposed)
    /\ liveWatchers' = WatchersDisposed \cup {NewId(WatchersDisposed)}
    /\ previewTimeout' = NewId(PreviewTimersCleared(livePreviewTimers))
    /\ livePreviewTimers' = AutoClearArmed(PreviewTimersCleared(livePreviewTimers))

\* The auto-clear timer's callback.
PreviewTimerFire(t) ==
    /\ t \in livePreviewTimers
    /\ clearSuggestionPreview(livePreviewTimers \ {t})
    /\ last' = Did("previewTimer", NoMsg, previewActive, 0)
    /\ UNCHANGED <<regVars, debVars, reqVars, edVars, cliVars, insVars>>

\* onDidChangeTextEditorSelection: the listener of activate calls
\* handleTextChange(null) for the active editor, and every registered
\* cursor watcher clears the preview.
SelectionChanged ==
    /\ IF activeEditor THEN handleTextChange ELSE UNCHANGED debVars
    /\ IF liveWatchers # {}
       THEN clearSuggestionPreview(livePreviewTimers)
       ELSE UNCHANGED pvVars

\* The user moves the cursor.
CursorMove(p) ==
    /\ activeEditor
    /\ p # cursor
    /\ cursor' = p
    /\ SelectionChanged
    /\ last' = Did("cursorMove", NoMsg, previewActive, 0)
    /\ UNCHANGED <<regVars, reqVars, insVars>>
    /\ UNCHANGED <<activeEditor, docVars, cliVars, now>>

\* ------------------------------------------------ the response correlator

Truthy(t) == t # ABSENT /\ t # NoTime /\ t # 0

\* The messages a backend can send on a socket: an answer to the latest
\* request or to the one before it (forReq, an index of reqHist; 0: to
\* none), stamped with that request's timestamp plus the backend's delay or
\* clock skew, with 0, or not at all.
TimestampDeltas == {0 - (FreshnessWindow + 1), 0 - FreshnessWindow,
                    FreshnessWindow, FreshnessWindow + 1}
Answered == IF reqHist = << >> THEN {0} ELSE 1..Len(reqHist)
SentAt(g) == IF g = 0 THEN now ELSE reqHist[g]
Messages ==
    {[type |-> "completion", suggestions |-> <<SuggB, SuggA>>,
      timestamp |-> ts, forReq |-> g] : ts \in {ABSENT, 0}, g \in Answered}
    \cup
    {[type |-> "completion", suggestions |-> <<SuggB, SuggA>>,
      timestamp |-> SentAt(g) + d, forReq |-> g] :
        d \in TimestampDeltas, g \in Answered}
    \cup
    {[type |-> "completion", suggestions |-> sl,
      timestamp |-> SentAt(g), forReq |-> g] :
        sl \in {<< >>, <<SuggA>>}, g \in Answered}
    \cup
    {[type |-> "other", suggestions |-> <<SuggA>>, timestamp |-> now, forReq |-> 0]}

\* type is not 'completion', or there is no suggestion.
Ignored(data) == data.type # "completion" \/ Len(data.suggestions) = 0

\* No editor, no outstanding request, or the cursor is not where the
\* request was made.
CursorMoved ==
    \/ ~activeEditor
    \/ lastRequestPosition = NoPosition
    \/ cursor.line # lastRequestPosition.line
    \/ cursor.character # lastRequestPosition.character

\* Both timestamps are there and more than the freshness window apart.
IsStale(data) ==
    /\ Truthy(data.timestamp)
    /\ Truthy(lastRequestTimestamp)
    /\ Abs(data.timestamp - lastRequestTimestamp) > FreshnessWindow

\* The first suggestion, as handleServerMessage previews it.
PreviewSuggestion(data) ==
    LET suggestion == data.suggestions[1]
    IN [text |-> suggestion.text,
        insertText |-> IF suggestion.insertText # NoText
                       THEN suggestion.insertText ELSE suggestion.text]

handleServerMessage(data) ==
    IF Ignored(data) \/ CursorMoved \/ IsStale(data)
    THEN /\ last' = Did("data", data, FALSE, 0)
         /\ UNCHANGED pvVars
    ELSE /\ shows < MaxShows
         /\ showSuggestionPreview(PreviewSuggestion(data))
         /\ last' = Did("data", data, TRUE, activePreview.id)

\* socket.on('data'): the frame is parsed and its JSON handled.
SocketData(k, data) ==
    /\ sockState[k] = "open"
    /\ handleServerMessage(data)
    /\ UNCHANGED <<regVars, debVars, reqVars, edVars, cliVars, insVars>>

\* ----------------------------------------------- the bytes a socket sends

\* JSON texts as UTF-8 bytes.
JsonNotJson == <<111, 111, 112, 115>>      \* oops
JsonNumber == <<53>>       \* 5
JsonNull == <<110, 117, 108, 108>>         \* null
JsonArray == <<91, 49, 93>>        \* [1]
JsonOther == <<123, 34, 116, 121, 112, 101, 34, 58, 34, 112, 105, 110, 103, 34, 125>>        \* {"type":"ping"}
\* {"type":"completion","suggestions":[{"text":"a"}],"timestamp":
CompletionHead == <<123, 34, 116, 121, 112, 101, 34, 58, 34, 99, 111, 109, 112, 108, 101, 116, 105, 111, 110, 34, 44, 34, 115, 117, 103, 103, 101, 115, 116, 105, 111, 110, 115, 34, 58, 91, 123, 34, 116, 101, 120, 116, 34, 58, 34, 97, 34, 125, 93, 44, 34, 116, 105, 109, 101, 115, 116, 97, 109, 112, 34, 58>>
CompletionEnd == <<125>>    \* }

RECURSIVE Decimal(_)
Decimal(n) == IF n < 10 THEN <<48 + n>> ELSE Decimal(n \div 10) \o <<48 + (n % 10)>>
RECURSIVE FromDecimal(_)
FromDecimal(ds) ==
    IF ds = << >> THEN 0
    ELSE 10 * FromDecimal(SubSeq(ds, 1, Len(ds) - 1)) + (ds[Len(ds)] - 48)

JsonCompletion(ts) == CompletionHead \o Decimal(ts) \o CompletionEnd

\* JSON.parse of a string received: of the texts above the value, of any
\* other text a SyntaxError. A completion is recognised by its head, the
\* digits of its timestamp and its closing brace.
JSONParse(text) ==
    LET h == Len(CompletionHead)
        digits == SubSeq(text, h + 1, Len(text) - 1)
    IN IF text = JsonNull THEN [kind |-> "null", value |-> NoMsg]
       ELSE IF text \in {JsonNumber, JsonArray}
            THEN [kind |-> "other", value |-> NoMsg]
       ELSE IF text = JsonOther
            THEN [kind |-> "object",
                  value |-> [type |-> "ping", suggestions |-> << >>,
                             timestamp |-> ABSENT, forReq |-> 0]]
       ELSE IF /\ Len(text) > h + 1
               /\ SubSeq(text, 1, h) = CompletionHead
               /\ text[Len(text)] = CompletionEnd[1]
               /\ \A i \in 1..Len(digits) : digits[i] \in 48..57
               /\ digits[1] # 48
            THEN [kind |-> "object",
                  value |-> [type |-> "completion", suggestions |-> <<SuggA>>,
                             timestamp |-> FromDecimal(digits), forReq |-> 0]]
       ELSE [kind |-> "throws", value |-> NoMsg]

\* What the data handler did with a buffer it did not hand on.
Dropped(why) == [NoMsg EXCEPT !.type = why]

\* The socket's 'data' handler on the bytes received.
SocketFrame(k, buffer) ==
    /\ sockState[k] = "open"
    /\ LET message == parseWebSocketFrame(buffer)
           data == JSONParse(message.text)
       IN IF message.kind = "throws"
          THEN last' = Did("frame", Dropped("caught"), FALSE, k) /\ UNCHANGED pvVars
          ELSE IF message.kind = "null" \/ message.text = << >>
          THEN last' = Did("frame", Dropped("no message"), FALSE, k) /\ UNCHANGED pvVars
          ELSE IF data.kind \in {"throws", "null"}
          THEN last' = Did("frame", Dropped("caught"), FALSE, k) /\ UNCHANGED pvVars
          ELSE IF data.kind = "other"
          THEN last' = Did("frame", Dropped("ignored"), FALSE, k) /\ UNCHANGED pvVars
          ELSE handleServerMessage(data.value)
    /\ UNCHANGED <<regVars, debVars, reqVars, edVars, cliVars, insVars>>

\* deactivate: the preview is cleared, the debounce timer is cancelled
\* (typingTimeout keeps its handle) and the server is stopped.
Deactivate ==
    /\ clearSuggestionPreview(livePreviewTimers)
    /\ liveDebounce' = DebounceCleared
    /\ stopWebSocketServerFrom("deactivate")
    /\ UNCHANGED <<typingTimeout, reqVars, edVars, cliVars, insVars>>

\* --------------------------------------------------------------- accept

\* insertSuggestion without the returns of lines 65 and 68.
insertSuggestionUnguarded ==
    /\ editsMade' = editsMade + 1
    /\ edits' = Append(edits,
           [position |-> activePreview.position,
            text |-> activePreview.suggestion.insertText,
            id |-> activePreview.id,
            applied |-> FALSE,
            resolved |-> FALSE])
    /\ last' = Did("accept", NoMsg, TRUE, activePreview.id)

\* insertSuggestion: nothing without a preview or an editor; otherwise the
\* edit is handed to the editor, which applies it later.
insertSuggestion ==
    IF activePreview = NoPreview \/ ~previewActive \/ ~activeEditor
    THEN /\ last' = Did("accept", NoMsg, FALSE, 0)
         /\ UNCHANGED <<edits, editsMade>>
    ELSE /\ editsMade' = editsMade + 1
         /\ edits' = Append(edits,
                [position |-> activePreview.position,
                 text |-> activePreview.suggestion.insertText,
                 id |-> activePreview.id,
                 applied |-> FALSE,
                 resolved |-> FALSE])
         /\ last' = Did("accept", NoMsg, TRUE, activePreview.id)

\* Fewer than cap editor.edit calls were made, or insertSuggestion would
\* make none now.
EditsBelow(cap) ==
    (activePreview # NoPreview /\ previewActive /\ activeEditor) => editsMade < cap

\* accept(): insertSuggestion entered as it stands, in any state.
Accept ==
    /\ insertSuggestion
    /\ UNCHANGED <<regVars, debVars, reqVars, pvVars, edVars, cliVars, selPending>>

\* The command faac.handleTab: insertSuggestion while a preview is active;
\* otherwise the editor's own tab, which changes the document at the cursor
\* (a document change calls handleTextChange) and moves the cursor right.
HandleTab ==
    IF previewActive
    THEN /\ insertSuggestion
         /\ UNCHANGED <<regVars, debVars, reqVars, pvVars, edVars, cliVars, selPending>>
    ELSE /\ IF activeEditor
            THEN /\ cursor.character < MaxChar
                 /\ cursor' = [cursor EXCEPT !.character = cursor.character + 1]
                 /\ SelectionChanged
            ELSE UNCHANGED <<cursor, debVars, pvVars>>
         /\ last' = Did("tab", NoMsg, FALSE, 0)
         /\ UNCHANGED <<regVars, reqVars, insVars>>
         /\ UNCHANGED <<activeEditor, docVars, cliVars, now>>

\* The cursor after text is inserted at position at: a cursor at or right of
\* it on the same line moves right by the text's length.
Shifted(c, at, text) ==
    IF c.line = at.line /\ c.character >= at.character
    THEN [line |-> c.line, character |-> c.character + Len(text)]
    ELSE c

\* An edit leaves edits once it is applied and its callback has run.
Pending(es) == SelectSeq(es, LAMBDA e : ~(e.applied /\ e.resolved))

\* The extension host hears of edit i's insertion: the document change
\* calls handleTextChange, and so does the selection change when the cursor
\* moved, which also runs the cursor watchers.
EditApplied(i) ==
    /\ i \in 1..Len(edits)
    /\ ~edits[i].applied
    /\ \A j \in 1..(i - 1) : edits[j].applied
    /\ edits' = Pending([edits EXCEPT ![i].applied = TRUE])
    /\ cursor' = Shifted(cursor, edits[i].position, edits[i].text)
    /\ handleTextChange
    /\ IF Shifted(cursor, edits[i].position, edits[i].text) # cursor /\ liveWatchers # {}
       THEN clearSuggestionPreview(livePreviewTimers)
       ELSE UNCHANGED pvVars
    /\ last' = Did("edited", NoMsg, previewActive, edits[i].id)
    /\ UNCHANGED <<regVars, reqVars, selPending, editsMade>>
    /\ UNCHANGED <<activeEditor, docVars, cliVars, now>>

\* The callback of editor.edit(...).then for edit i: it reads activePreview
\* again.  With none it throws; otherwise it puts the cursor behind that
\* preview's text and clears the preview.
EditThen(i) ==
    /\ i \in 1..Len(edits)
    /\ ~edits[i].resolved
    /\ \A j \in 1..(i - 1) : edits[j].resolved
    /\ edits' = Pending([edits EXCEPT ![i].resolved = TRUE])
    /\ IF activePreview = NoPreview
       THEN /\ last' = Did("thenThrew", NoMsg, FALSE, edits[i].id)
            /\ UNCHANGED <<pvVars, cursor, selPending>>
       ELSE /\ cursor' = [line |-> activePreview.position.line,
                          character |-> activePreview.position.character
                                        + Len(activePreview.suggestion.insertText)]
            /\ selPending' = (selPending \/ cursor' # cursor)
            /\ clearSuggestionPreview(livePreviewTimers)
            /\ last' = Did("then", NoMsg, activePreview.id = edits[i].id, edits[i].id)
    /\ UNCHANGED <<regVars, debVars, reqVars, editsMade>>
    /\ UNCHANGED <<activeEditor, docVars, cliVars, now>>

\* The selection event of the callback's own cursor change arrives.
SelectionEvent ==
    /\ selPending
    /\ selPending' = FALSE
    /\ SelectionChanged
    /\ last' = Did("cursorMove", NoMsg, previewActive, 0)
    /\ UNCHANGED <<regVars, reqVars, edVars, cliVars, edits, editsMade>>

\* ------------------------------------------------------- specifications

\* The whole extension.
Next ==
    \/ Start
    \/ Stop
    \/ \E s \in Servers : ServerError(s)
    \/ \E k \in Sockets : Upgrade(k)
    \/ \E k \in Sockets : SocketClose(k)
    \/ \E k \in Sockets : SocketError(k)
    \/ TextChange
    \/ \E t \in TimerIds : DebounceFire(t)
    \/ \E d \in ClockSteps : Tick(d)
    \/ FocusChange
    \/ \E p \in Positions : CursorMove(p)
    \/ \E t \in TimerIds : PreviewTimerFire(t)
    \/ \E k \in Sockets : \E data \in Messages : SocketData(k, data)
    \/ EditsBelow(MaxEdits) /\ Accept
    \/ EditsBelow(MaxEdits) /\ HandleTab
    \/ \E i \in 1..MaxEdits : EditApplied(i)
    \/ \E i \in 1..MaxEdits : EditThen(i)
    \/ SelectionEvent
    \/ \E f \in FileNames : SwitchFile(f)
    \/ Deactivate
    \/ Connect
    \/ \E c \in WebSockets : WsOpen(c)
    \/ \E c \in WebSockets : WsClose(c)
    \/ ReconnectTimerFire
    \/ Send
    \/ Disconnect

Spec == Init /\ [][Next]_vars

\* The server and its registry: the server's lifecycle, the sockets' events
\* and the broadcast of the debounced request.
NextRegistry ==
    \/ Start
    \/ Stop
    \/ \E s \in Servers : ServerError(s)
    \/ \E k \in Sockets : Upgrade(k)
    \/ \E k \in Sockets : SocketClose(k)
    \/ \E k \in Sockets : SocketError(k)
    \/ TextChange
    \/ \E t \in TimerIds : DebounceFire(t)

SpecRegistry == Init /\ [][NextRegistry]_vars

\* The debounced trigger, with one client connected.
NextDebounce ==
    \/ TextChange
    \/ \E p \in Positions : CursorMove(p)
    \/ FocusChange
    \/ \E t \in TimerIds : DebounceFire(t)
    \/ \E k \in Sockets : Upgrade(k)
    \/ \E k \in Sockets : SocketClose(k)

SpecDebounce == InitConnectedAnyDoc /\ [][NextDebounce]_vars

\* The correlator, with one client connected: requests are made as the
\* editor changes, and completions arrive.
NextCorrelator ==
    \/ \E p \in Positions : CursorMove(p)
    \/ FocusChange
    \/ \E t \in TimerIds : DebounceFire(t)
    \/ \E k \in Sockets : \E data \in Messages : SocketData(k, data)
    \/ \E t \in TimerIds : PreviewTimerFire(t)

SpecCorrelator == InitConnected /\ [][NextCorrelator]_vars

\* The same while time passes between the requests.
NextSupersede ==
    \/ TextChange
    \/ \E p \in Positions : CursorMove(p)
    \/ \E d \in ClockSteps : Tick(d)
    \/ \E t \in TimerIds : DebounceFire(t)
    \/ \E k \in Sockets : \E data \in Messages : SocketData(k, data)
    \/ \E t \in TimerIds : PreviewTimerFire(t)

SpecSupersede == InitConnected /\ [][NextSupersede]_vars

\* The preview's lifecycle, with one client connected: previews are shown,
\* cleared and accepted.  The messages are those stamped with the time of
\* the request they answer.
LifecycleMessages ==
    {m \in Messages : m.timestamp = SentAt(m.forReq)}

NextLifecycle ==
    \/ \E p \in Positions : CursorMove(p)
    \/ FocusChange
    \/ \E t \in TimerIds : DebounceFire(t)
    \/ \E k \in Sockets : \E data \in LifecycleMessages : SocketData(k, data)
    \/ \E t \in TimerIds : PreviewTimerFire(t)
    \/ EditsBelow(MaxEdits) /\ Accept
    \/ EditsBelow(MaxEdits) /\ HandleTab
    \/ \E i \in 1..MaxEdits : EditApplied(i)
    \/ \E i \in 1..MaxEdits : EditThen(i)
    \/ SelectionEvent

SpecLifecycle == InitConnected /\ [][NextLifecycle]_vars

\* The allow-list: requests are made for the files the user switches
\* between, while clients come and go.
NextAllowList ==
    \/ TextChange
    \/ \E f \in FileNames : SwitchFile(f)
    \/ \E p \in Positions : CursorMove(p)
    \/ \E t \in TimerIds : DebounceFire(t)
    \/ \E k \in Sockets : Upgrade(k)
    \/ \E k \in Sockets : SocketClose(k)

SpecAllowList == InitAllowList /\ [][NextAllowList]_vars

\* Shutdown: the server is started and stopped and the extension deactivated
\* while requests are made and previews shown.  Nothing runs once the
\* extension is deactivated.
Activated == last.op # "deactivate"
NextShutdown ==
    \/ Activated /\ Start
    \/ Activated /\ Stop
    \/ Activated /\ Deactivate
    \/ Activated /\ \E k \in Sockets : Upgrade(k)
    \/ Activated /\ \E p \in Positions : CursorMove(p)
    \/ Activated /\ \E t \in TimerIds : DebounceFire(t)
    \/ Activated /\ \E k \in Sockets : \E data \in LifecycleMessages : SocketData(k, data)
    \/ Activated /\ \E t \in TimerIds : PreviewTimerFire(t)

SpecShutdown == InitShutdown /\ [][NextShutdown]_vars

\* --------------------------------------------------------------- claims

\* C1: a completion with at least one suggestion and a numeric timestamp,
\* handled while a request is outstanding, shows a preview if and only if
\* the cursor is where the request was made and the timestamps are at most
\* the freshness window apart.
C1_AcceptIffCursorAndFresh ==
    (/\ last.op = "data"
     /\ last.msg.type = "completion"
     /\ Len(last.msg.suggestions) >= 1
     /\ last.msg.timestamp # ABSENT
     /\ lastRequestPosition # NoPosition)
    => (last.hit <=>
            /\ activeEditor
            /\ cursor = lastRequestPosition
            /\ Abs(last.msg.timestamp - lastRequestTimestamp) <= FreshnessWindow)

\* C2: a completion whose timestamp is absent or 0 never shows a preview.
C2_NoTimestampNeverAccepted ==
    (last.op = "data" /\ last.msg.timestamp \in {ABSENT, 0}) => ~last.hit

\* C3: a completion the backend produced for the request before the latest
\* one never shows a preview.
C3_SupersededResponseDropped ==
    (/\ last.op = "data"
     /\ last.msg.forReq >= 1
     /\ last.msg.forReq < Len(reqHist))
    => ~last.hit

\* C4: with auto-trigger on, a client registered, an editor and an allowed
\* file, the debounce timer's firing broadcasts the request, once, and no
\* other debounce timer is left pending.
C4_DebounceBroadcastsOnce ==
    [][(/\ last'.op \in {"fire", "fireThrew"}
        /\ liveDebounce' # liveDebounce
        /\ EnableAutoTrigger
        /\ clients # {}
        /\ activeEditor
        /\ ExtensionAllowed)
       => (last'.hit /\ liveDebounce' = {})]_vars

\* C5: an accepted completion leaves the lifecycle Previewing; a cursor move
\* or the auto-clear timer while Previewing leaves it Idle, with the
\* rendering removed, the timer cancelled, the watcher disposed, no active
\* preview and the flag false.
C5_PreviewingThenIdle ==
    /\ (last.op = "data" /\ last.hit) => (previewActive /\ decorated)
    /\ (last.op \in {"cursorMove", "previewTimer"} /\ last.hit)
       => (/\ ~decorated
           /\ previewTimeout = NoHandle
           /\ livePreviewTimers = {}
           /\ cursorDisposable = NoHandle
           /\ liveWatchers = {}
           /\ activePreview = NoPreview
           /\ ~previewActive
           /\ ~suggestionPreviewVisible)

\* C6: the callback of an accepted preview's edit always finds that preview
\* still active: it never reads a cleared preview and never acts on another.
C6_CallbackFindsItsPreview ==
    (last.op \in {"then", "thenThrew"}) => (last.op = "then" /\ last.hit)

\* C7: insertSuggestion entered while no preview is active changes nothing:
\* no edit is made, and the preview, the timers, the outstanding request,
\* the registry and the editor stay as they are.
C7_AcceptWhileIdleIsNoOp ==
    [][(last'.op = "accept" /\ (~previewActive \/ activePreview = NoPreview))
       => UNCHANGED <<regVars, debVars, reqVars, pvVars, edVars, cliVars, insVars>>]_vars

\* C7 witness: insertSuggestion has just returned without a preview, while a
\* request is outstanding, a client is registered and a debounce timer is
\* pending.
C7_IdleAcceptHappened ==
    /\ last.op = "accept"
    /\ ~last.hit
    /\ ~previewActive
    /\ lastRequestPosition # NoPosition
    /\ clients # {}
    /\ liveDebounce # {}

\* C8: previewActive, a non-null activePreview, an armed auto-clear timer and
\* a registered cursor watcher go together, and the only timer and watcher
\* alive are those of the active preview.
C8_PreviewBookkeeping ==
    /\ previewActive <=> (activePreview # NoPreview)
    /\ previewActive <=> (previewTimeout # NoHandle)
    /\ previewActive <=> (cursorDisposable # NoHandle)
    /\ livePreviewTimers = (IF previewActive THEN {previewTimeout} ELSE {})
    /\ liveWatchers = (IF previewActive THEN {cursorDisposable} ELSE {})

\* C8 witness: a completion has just been accepted while another preview was
\* active, and replaced it.
C8_PreviewSuperseded ==
    /\ last.op = "data"
    /\ last.hit
    /\ last.n # 0
    /\ previewActive
    /\ activePreview.id # last.n

\* C9: clients is exactly the set of the sockets that shook hands and have
\* not closed.
C9_ClientsAreTheOpenSockets ==
    clients = {k \in Sockets : sockState[k] = "open"}

\* C10: when stopWebSocketServer returns, the registry is empty, the handle
\* is null and no listener holds the port.
C10_StopReleasesEverything ==
    (last.op = "stop") => (clients = {} /\ server = NoServer /\ PortFree)
\* C11: when stopWebSocketServer has stopped a server, or deactivate
\* returns, no debounce timer and no auto-clear timer is pending.
C11_NoTimerAfterShutdown ==
    (last.op = "deactivate" \/ (last.op = "stop" /\ last.hit))
    => (liveDebounce = {} /\ livePreviewTimers = {})
\* C12: a broadcast that is reached writes the frame once to every
\* registered socket, removes from the registry exactly the sockets whose
\* write failed, and does not fail itself.
C12_BroadcastPartialFailure ==
    [][(/\ last'.op \in {"fire", "fireThrew"}
        /\ liveDebounce' # liveDebounce
        /\ clients # {}
        /\ activeEditor
        /\ ExtensionAllowed
        /\ ~MarkerThrows(cursor.line))
       => (/\ last'.op = "fire"
           /\ last'.hit
           /\ last'.msg.attempts = InOrder(clients)
           /\ last'.msg.failed \subseteq clients
           /\ last'.msg.sent = clients \ last'.msg.failed
           /\ clients' = clients \ last'.msg.failed)]_vars

\* C12 witness: a broadcast has just failed for one socket and reached
\* another, which is still registered.
C12_PartialFailureHappened ==
    /\ last.op = "fire"
    /\ last.hit
    /\ last.msg.failed # {}
    /\ last.msg.sent # {}
    /\ clients = last.msg.sent
\* C13: when the debounce fires with no socket registered, or for a file
\* whose extension is not on an allow-list without '*', nothing is broadcast
\* and the registry and the outstanding request stay as they are; with '*'
\* on the list the request is made for any file.
C13_SkippedRequestChangesNothing ==
    [][(last'.op \in {"fire", "fireThrew"} /\ liveDebounce' # liveDebounce)
       => (/\ (\/ clients = {}
               \/ /\ "*" \notin allowedFileExtensions
                  /\ FileExt(fileName) \notin allowedFileExtensions)
              => (/\ last'.op = "fire"
                  /\ ~last'.hit
                  /\ UNCHANGED <<clients, reqVars>>)
           /\ (clients # {} /\ activeEditor /\ "*" \in allowedFileExtensions)
              => (/\ last'.hit
                  /\ lastRequestPosition' = cursor
                  /\ lastRequestTimestamp' = now))]_vars

\* C13 witness: the debounce has just fired for a file that is not allowed,
\* with a client registered, and the request made earlier for an allowed
\* file is still the outstanding one.
C13_DisallowedFileSkipped ==
    /\ last.op = "fire"
    /\ ~last.hit
    /\ clients # {}
    /\ activeEditor
    /\ "*" \notin allowedFileExtensions
    /\ FileExt(fileName) \notin allowedFileExtensions
    /\ lastRequestPosition # NoPosition

\* C16: a start while a server is running and a stop while none is running
\* each show the user a warning.
C16_MisuseIsReported ==
    (last.op \in {"start", "stop"} /\ ~last.hit) => last.msg.type = "warning"

\* C17: when a start has failed, the server handle is null and the registry
\* is empty.
C17_FailedStartLeavesNothing ==
    (last.op = "startFailed") => (server = NoServer /\ clients = {})

\* C21: a server that is listening is the one the module variable server
\* refers to.
C21_HandleTracksListener ==
    \A s \in Servers : srvState[s] = "listening" => server = s

\* Accepts in quick succession: a preview is shown and Tab is pressed, and
\* pressed again, while the editor applies the edits and runs the callbacks.
NextAccept ==
    \/ \E t \in TimerIds : DebounceFire(t)
    \/ \E k \in Sockets : \E data \in LifecycleMessages : SocketData(k, data)
    \/ \E t \in TimerIds : PreviewTimerFire(t)
    \/ EditsBelow(MaxAccepts) /\ HandleTab
    \/ \E i \in 1..MaxAccepts : EditApplied(i)
    \/ \E i \in 1..MaxAccepts : EditThen(i)
    \/ SelectionEvent

SpecAccept == InitConnected /\ [][NextAccept]_vars

\* C22: no preview's text is inserted twice: two edits that the editor has
\* applied are edits of different previews.
C22_InsertedAtMostOnce ==
    \A i, j \in 1..Len(edits) :
        (i # j /\ edits[i].applied /\ edits[j].applied)
            => edits[i].id # edits[j].id

\* C23: while this.ws is null, as disconnect() leaves it, only the caller's
\* connect() creates a WebSocket: the client stays without a socket and not
\* connected, the close of the socket that disconnect() closed arms no
\* reconnect timer, and reconnectAttempts stays within maxReconnectAttempts.
C23_DisconnectIsFinal ==
    [][/\ (ws = NoSocket /\ last'.op # "connect") =>
            (ws' = NoSocket /\ ~isConnected' /\ reconnectTimers' <= reconnectTimers)
       /\ reconnectAttempts' <= MaxReconnectAttempts]_vars

\* The frames a connected client can send: a completion stamped with the
\* time of day or with the latest request's time, and the malformed ones.
Stamps == {now} \cup ({lastRequestTimestamp} \ {NoTime})
CompletionFrame(ts) == ClientFrame(JsonCompletion(ts), MaskKey(1))
WithOpcode(frame, opcode) == <<128 + opcode>> \o Tail(frame)
Truncated(frame, n) == SubSeq(frame, 1, n)
ProtocolErrors(ts) ==
    {<< >>, <<129>>,                                    \* fewer than two bytes
     WithOpcode(CompletionFrame(ts), 8),                \* close
     WithOpcode(CompletionFrame(ts), 2),                \* binary
     WithOpcode(CompletionFrame(ts), 9),                \* ping
     <<129, 254>>, <<129, 254, 0>>,                     \* two-byte length cut
     <<129, 255, 0, 0, 0>>,                             \* eight-byte length cut
     Truncated(CompletionFrame(ts), 4),                 \* mask key cut
     Truncated(ClientFrame(JsonNull, MaskKey(1)), 9),   \* payload cut: nul
     ClientFrame(JsonNotJson, MaskKey(1)),
     ClientFrame(JsonNull, MaskKey(1)),
     ClientFrame(JsonNumber, MaskKey(1)),
     ClientFrame(JsonArray, MaskKey(1)),
     ClientFrame(JsonOther, MaskKey(1))}

\* The data handler on raw frames, between requests and previews.
NextProtocol ==
    \/ TextChange
    \/ \E t \in TimerIds : DebounceFire(t)
    \/ \E k \in Sockets : \E ts \in Stamps :
          \E b \in ProtocolErrors(ts) \cup {CompletionFrame(ts)} : SocketFrame(k, b)
    \/ \E t \in TimerIds : PreviewTimerFire(t)

SpecProtocol == InitConnected /\ [][NextProtocol]_vars

\* C15: a malformed or foreign frame (fewer than two bytes, a close or other
\* non-text opcode, a length or mask header cut short, a payload that is not
\* JSON, JSON that is not an object, a type other than completion) is
\* dropped and nothing else happens: the handler returns normally, the
\* registry, the server, the timers, the preview and the request's position
\* and time are as before. (Stated as: a step of the data handler that does
\* anything else is not a step on such a frame.)
C15_ProtocolErrorDropsOnlyTheMessage ==
    [][\/ last'.op \notin {"frame", "data"}
       \/ /\ UNCHANGED <<regVars, debVars, reqVars, pvVars, insVars>>
          /\ ~last'.hit
          /\ last'.msg.type \in {"caught", "no message", "ignored", "ping",
                                  "completion"}
       \/ \A k \in Sockets : \A ts \in Stamps : \A b \in ProtocolErrors(ts) :
             ~SocketFrame(k, b)]_vars

C15_BadFrameDroppedDuringPreview ==
    /\ last.op = "frame"
    /\ last.msg.type = "caught"
    /\ last.n \in clients
    /\ previewActive
    /\ livePreviewTimers # {}
    /\ lastRequestTimestamp # NoTime

\* The userscript's client on its own.
NextClient ==
    \/ Connect
    \/ \E c \in WebSockets : WsOpen(c)
    \/ \E c \in WebSockets : WsClose(c)
    \/ ReconnectTimerFire
    \/ Send
    \/ Disconnect

SpecClient == InitShutdown /\ [][NextClient]_vars

\* C18: when a reconnect timer has elapsed, the client holds a WebSocket
\* that is connecting or open: a new one if the old one was closed.
C18_ReconnectOpensSocket ==
    (last.op = "reconnect") =>
        (ws # NoSocket /\ wsState[ws] \in {"connecting", "open"})

\* C19: a message sent while the client is not connected joins the end of
\* the queue; an open leaves the queue empty; every message sent so far is
\* either in the queue or was handed to one socket, exactly once; and the
\* queue and each socket hold their messages in the order of the send()
\* calls, so a flushed message precedes every message sent after the open.
C19_QueueFlushedOnceInOrder ==
    LET Count(seq, m) == Cardinality({i \in 1..Len(seq) : seq[i] = m})
        Ascending(seq) == \A i \in 1..(Len(seq) - 1) : seq[i] < seq[i + 1]
    IN /\ (last.op = "send" /\ ~last.hit) =>
            (messageQueue # << >> /\ messageQueue[Len(messageQueue)] = last.n)
       /\ (last.op = "wsOpen") => (messageQueue = << >> /\ ws = last.n)
       /\ \A m \in 1..sendCalls :
            Count(messageQueue, m)
              + Cardinality({c \in WebSockets : Count(wire[c], m) = 1})
              = 1
       /\ \A m \in 1..sendCalls : \A c \in WebSockets : Count(wire[c], m) <= 1
       /\ Ascending(messageQueue)
       /\ \A c \in WebSockets : Ascending(wire[c])

C19_TwoQueuedThenFlushed ==
    /\ last.op = "wsOpen"
    /\ Len(wire[last.n]) >= 2
    /\ messageQueue = << >>
    /\ \E c \in WebSockets : c # last.n /\ wire[c] # << >>

\* The correlator and the preview with every armed auto-clear timer
\* eventually firing unless it is cancelled.
SpecCorrelatorFair ==
    /\ InitConnected
    /\ [][NextCorrelator]_vars
    /\ \A t \in TimerIds : WF_vars(PreviewTimerFire(t))

\* C20: every preview shown is eventually cleared, by its auto-clear timer
\* at the latest, whatever else happens or fails to happen: the lifecycle
\* leaves Previewing for Idle, or the preview is replaced by a later one
\* after the clear that precedes every show.
C20_EveryPreviewCleared ==
    \A i \in 1..(MaxShows + 1) :
        (previewActive /\ activePreview.id = i)
            ~> (~previewActive \/ activePreview.id # i)

C20_TimerClearedPreview ==
    /\ last.op = "previewTimer"
    /\ last.hit
    /\ ~previewActive
    /\ activePreview = NoPreview
    /\ livePreviewTimers = {}
    /\ shows > 0

\* The frame codec on its own.
NextCodec ==
    \/ FrameForClient
    \/ \E i \in 0..MaxMaskKeys : FrameFromClient(i)
    \/ ParseFrame

SpecCodec == InitCodec /\ [][NextCodec]_vars

\* C14: parsing a client's masked frame of a payload, under any mask key,
\* and parsing the frame createWebSocketFrame builds for it, both return the
\* payload, for payloads of 0, 10, 125, 126, 65535 and 65536 bytes; the
\* built frame starts with 0x81, has the mask bit clear, and carries the
\* length directly up to 125, after a 126 marker in two bytes up to 65535,
\* and after a 127 marker in eight bytes above.
C14_FrameRoundTrip ==
    /\ last.op = "parse" => last.msg.result = ParsedText(last.msg.text)
    /\ last.op = "createFrame" =>
         LET f == last.msg.frame
             n == last.msg.size
         IN /\ n = Len(Utf8Encode(last.msg.text))
            /\ f[1] = 129
            /\ f[2] < 128
            /\ n <= 125 => f[2] = n /\ Len(f) = 2 + n
            /\ (n > 125 /\ n <= 65535) =>
                 f[2] = 126 /\ ReadBE(f, 2, 2) = n /\ Len(f) = 4 + n
            /\ n > 65535 =>
                 f[2] = 127 /\ ReadBE(f, 2, 8) = n /\ Len(f) = 10 + n

C14_MaskedRoundTripAtMarker ==
    /\ last.op = "parse"
    /\ last.msg.from = "clientFrame"
    /\ last.msg.size = 126
    /\ last.n # 0
    /\ last.msg.result.kind = "text"
    /\ Len(last.msg.result.text) = 125

====
